---- MODULE Spec2Model ----
(***************************************************************************)
(* The record store of the visitor / key log book server (server.js, kept  *)
(* in src/adb_bridge.js from line 141 on): two JSON collection files, one   *)
(* photo directory, and the seven mutating request handlers.               *)
(*                                                                         *)
(* A JSON object is a function whose DOMAIN is the set of its keys, a JSON  *)
(* array is a sequence, a JavaScript string is a TLA+ string.  The photo    *)
(* directory is a function from file name to file content.                 *)
(***************************************************************************)
EXTENDS Integers, Sequences, FiniteSets, TLC

\* Bounds of the model: the number of records a collection must stay
\* under for a create to be taken.  The visitor collection, whose plain
\* delete leaves gaps and duplicates, is explored up to two records; the
\* key collection up to three.
MaxVisitors == 2
MaxKeys == 3

\* The number of requests a run with requests in flight handles, each in
\* a slot of its own.
MaxInFlight == 2

VARIABLES
    visitorsFile,   \* parsed content of data/visitors.json
    keysFile,       \* parsed content of data/keys.json
    photos,         \* data/photos: file name -> content
    last,           \* the response of the last request: [status, body]
    desk,           \* the collection the requests of this run address
    exists,         \* the collection files that exist in data/
    server,         \* "starting" until initializeDataDirectories has run
    inflight        \* the requests being handled: slot -> context

vars == <<visitorsFile, keysFile, photos, last, desk, exists, server, inflight>>

----------------------------------------------------------------------------
(* JavaScript values and string functions                                  *)

\* The value of a missing property.
Undefined == "<undefined>"

\* obj[key]
Get(obj, key) == IF key \in DOMAIN obj THEN obj[key] ELSE Undefined

\* obj.key = value
Put(obj, key, value) ==
    [k \in DOMAIN obj \cup {key} |-> IF k = key THEN value ELSE obj[k]]

\* !value, for a value that is a string or undefined
Falsy(value) == value = Undefined \/ value = ""

WhiteSpace == {" ", "\t", "\n"}

RECURSIVE TrimStart(_)
TrimStart(s) ==
    IF Len(s) > 0 /\ SubSeq(s, 1, 1) \in WhiteSpace
    THEN TrimStart(SubSeq(s, 2, Len(s)))
    ELSE s

RECURSIVE TrimEnd(_)
TrimEnd(s) ==
    IF Len(s) > 0 /\ SubSeq(s, Len(s), Len(s)) \in WhiteSpace
    THEN TrimEnd(SubSeq(s, 1, Len(s) - 1))
    ELSE s

\* String.prototype.trim
trim(s) == TrimEnd(TrimStart(s))

DigitChars == <<"0", "1", "2", "3", "4", "5", "6", "7", "8", "9">>

IsDigit(c) == \E d \in 1..10 : DigitChars[d] = c

\* Number.prototype.toString, for a natural number
RECURSIVE toString(_)
toString(n) ==
    IF n < 10 THEN DigitChars[n + 1]
    ELSE toString(n \div 10) \o DigitChars[(n % 10) + 1]

\* String.prototype.padStart
RECURSIVE padStart(_, _, _)
padStart(s, targetLength, padString) ==
    IF Len(s) >= targetLength THEN s
    ELSE padStart(padString \o s, targetLength, padString)

\* (n).toString().padStart(4, '0')
Serial(n) == padStart(toString(n), 4, "0")

\* Array.prototype.join
RECURSIVE join(_, _)
join(list, sep) ==
    IF Len(list) = 0 THEN ""
    ELSE IF Len(list) = 1 THEN list[1]
    ELSE list[1] \o sep \o join(Tail(list), sep)

StartsWith(s, prefix) ==
    Len(s) >= Len(prefix) /\ SubSeq(s, 1, Len(prefix)) = prefix

\* The characters the regular expression class \w matches.
WordChars ==
    {"a", "b", "c", "d", "e", "f", "g", "h", "i", "j", "k", "l", "m",
     "n", "o", "p", "q", "r", "s", "t", "u", "v", "w", "x", "y", "z",
     "A", "B", "C", "D", "E", "F", "G", "H", "I", "J", "K", "L", "M",
     "N", "O", "P", "Q", "R", "S", "T", "U", "V", "W", "X", "Y", "Z",
     "0", "1", "2", "3", "4", "5", "6", "7", "8", "9", "_"}

\* The first position at or after i of s that holds no \w character.
RECURSIVE WordRunEnd(_, _)
WordRunEnd(s, i) ==
    IF i <= Len(s) /\ SubSeq(s, i, i) \in WordChars
    THEN WordRunEnd(s, i + 1)
    ELSE i

\* payload.replace(/^data:image\/\w+;base64,/, '')
StripDataUri(payload) ==
    LET head == "data:image/"
        tail == ";base64,"
        j    == WordRunEnd(payload, Len(head) + 1)
    IN  IF /\ StartsWith(payload, head)
           /\ j > Len(head) + 1
           /\ StartsWith(SubSeq(payload, j, Len(payload)), tail)
        THEN SubSeq(payload, j + Len(tail), Len(payload))
        ELSE payload

\* /^784-\d{4}-\d{7}-\d$/.test(id)
idPattern(id) ==
    /\ Len(id) = 18
    /\ SubSeq(id, 1, 4) = "784-"
    /\ \A i \in 5..8 : IsDigit(SubSeq(id, i, i))
    /\ SubSeq(id, 9, 9) = "-"
    /\ \A i \in 10..16 : IsDigit(SubSeq(id, i, i))
    /\ SubSeq(id, 17, 17) = "-"
    /\ IsDigit(SubSeq(id, 18, 18))

\* JSON.parse(JSON.stringify(obj)): a property whose value is undefined is
\* not written.
JSONObject(obj) ==
    [k \in {x \in DOMAIN obj : obj[x] # Undefined} |-> obj[k]]

JSONArray(list) == [i \in 1..Len(list) |-> JSONObject(list[i])]

\* findIndex as it would be were -1 taken for the index of the last record.
findIndexOrLast(list, serialNumber) ==
    IF \E i \in 1..Len(list) : list[i].serialNumber = serialNumber
    THEN CHOOSE i \in 1..Len(list) :
            /\ list[i].serialNumber = serialNumber
            /\ \A j \in 1..(i - 1) : list[j].serialNumber # serialNumber
    ELSE Len(list)

\* list.findIndex(r => r.serialNumber === serialNumber), 1-based; 0 for -1
findIndex(list, serialNumber) ==
    IF \E i \in 1..Len(list) : list[i].serialNumber = serialNumber
    THEN CHOOSE i \in 1..Len(list) :
            /\ list[i].serialNumber = serialNumber
            /\ \A j \in 1..(i - 1) : list[j].serialNumber # serialNumber
    ELSE 0

\* list.splice(index, 1)
splice(list, index) ==
    [i \in 1..(Len(list) - 1) |-> IF i < index THEN list[i] ELSE list[i + 1]]

----------------------------------------------------------------------------
(* The file system                                                         *)

\* The collection files.
VISITORS_FILE == "data/visitors.json"
KEYS_FILE == "data/keys.json"

\* fs is require('fs').promises, which has no existsSync: every call of
\* fs.existsSync throws a TypeError.
fsHasExistsSync == FALSE

writeFile(dir, path, data) == Put(dir, path, data)

unlink(dir, path) == [p \in DOMAIN dir \ {path} |-> dir[p]]

\* fs.rename: the file at oldPath replaces whatever is at newPath
rename(dir, oldPath, newPath) ==
    IF oldPath = newPath THEN dir
    ELSE [p \in (DOMAIN dir \ {oldPath}) \cup {newPath} |->
            IF p = newPath THEN dir[oldPath] ELSE dir[p]]

\* The photo file names: `${serialNumber}_front.jpg` for a visitor (prefix
\* ""), `key_${serialNumber}_front.jpg` for a key (prefix "key_").
frontName(prefix, serialNumber) == prefix \o serialNumber \o "_front.jpg"
backName(prefix, serialNumber) == prefix \o serialNumber \o "_back.jpg"

VisitorPrefix == ""
KeyPrefix == "key_"

\* loadVisitors / loadKeys: a failed read is logged and an empty list returned
loadVisitors(readFault) == IF readFault THEN <<>> ELSE visitorsFile
loadKeys(readFault) == IF readFault THEN <<>> ELSE keysFile

Response(status, body) == [status |-> status, body |-> body]

\* The message of the error a failed fs.writeFile of a collection file throws.
WriteError == "EIO: i/o error, write"

\* The message of the error a failed fs.writeFile of a photo file throws.
PhotoWriteError == "ENOSPC: no space left on device, write"

\* The fs.writeFile of a create's photos that fails: none, the one of the
\* front photo, or the one of the back photo.
PhotoFaults == {"none", "front", "back"}

----------------------------------------------------------------------------
(* Validation                                                              *)

visitorRequiredFields ==
    <<"serialNumber", "idNumber", "name", "company", "phone", "timeIn",
      "date", "purpose">>

keyRequiredFields ==
    <<"serialNumber", "idNumber", "name", "keyTagName", "timeTaken", "date",
      "securityRemarks">>

\* The loop as it would be were it left at the first missing field.
RECURSIVE missingFieldsFirst(_, _, _)
missingFieldsFirst(obj, requiredFields, n) ==
    IF n = 0 THEN <<>>
    ELSE LET field == requiredFields[n]
             rest  == missingFieldsFirst(obj, requiredFields, n - 1)
         IN  IF Len(rest) > 0 THEN rest
             ELSE IF Falsy(Get(obj, field)) \/ trim(Get(obj, field)) = ""
             THEN <<field>>
             ELSE rest

\* The loop over requiredFields: the fields of the first n that are missing.
RECURSIVE missingFields(_, _, _)
missingFields(obj, requiredFields, n) ==
    IF n = 0 THEN <<>>
    ELSE LET field == requiredFields[n]
             rest  == missingFields(obj, requiredFields, n - 1)
         IN  IF Falsy(Get(obj, field)) \/ trim(Get(obj, field)) = ""
             THEN Append(rest, field)
             ELSE rest

\* The message of the error validateVisitorData throws, "" when it returns.
validateVisitorData(visitor) ==
    LET missing == missingFields(visitor, visitorRequiredFields,
                                 Len(visitorRequiredFields))
    IN  IF Len(missing) > 0
        THEN "Missing required fields: " \o join(missing, ", ")
        ELSE IF ~idPattern(visitor.idNumber)
        THEN "Invalid ID Number format"
        ELSE IF Falsy(Get(visitor, "frontPhoto")) \/ Falsy(Get(visitor, "backPhoto"))
        THEN "Both front and back ID photos are required"
        ELSE ""

validateKeyData(key) ==
    LET missing == missingFields(key, keyRequiredFields, Len(keyRequiredFields))
    IN  IF Len(missing) > 0
        THEN "Missing required fields: " \o join(missing, ", ")
        ELSE IF ~idPattern(key.idNumber)
        THEN "Invalid Emirates ID format. Expected format: 784-XXXX-XXXXXXX-X"
        ELSE IF Falsy(Get(key, "frontPhoto")) \/ Falsy(Get(key, "backPhoto"))
        THEN "Both front and back ID photos are required"
        ELSE ""

----------------------------------------------------------------------------
(* Requests                                                                *)

\* new Date().toISOString().split('T')[0] at the time of the request
Today == "2026-11-02"

VisitorAli ==
    [serialNumber |-> "0007", idNumber |-> "784-1234-1234567-1",
     name |-> "Ali", company |-> "Acme", phone |-> "0501234567",
     timeIn |-> "09:00", date |-> "2020-01-01", purpose |-> "Meeting",
     frontPhoto |-> "data:image/jpeg;base64,QUxJRg==",
     backPhoto |-> "data:image/png;base64,QUxJQg=="]

VisitorSara ==
    [serialNumber |-> "0001", idNumber |-> "784-1990-7654321-9",
     name |-> "Sara", company |-> "Globex", phone |-> "0559876543",
     timeIn |-> "10:15", date |-> "2020-01-01", purpose |-> "Delivery",
     frontPhoto |-> "U0FSQUY=", backPhoto |-> "U0FSQUI="]

KeyAli ==
    [serialNumber |-> "0009", idNumber |-> "784-1234-1234567-1",
     name |-> "Ali", keyTagName |-> "Roof", timeTaken |-> "09:05",
     date |-> "2020-01-01", securityRemarks |-> "ok",
     frontPhoto |-> "data:image/jpeg;base64,QUxJRg==",
     backPhoto |-> "data:image/png;base64,QUxJQg=="]

KeySara ==
    [serialNumber |-> "0001", idNumber |-> "784-1990-7654321-9",
     name |-> "Sara", keyTagName |-> "Store", timeTaken |-> "10:20",
     date |-> "2020-01-01", securityRemarks |-> "none",
     frontPhoto |-> "U0FSQUY=", backPhoto |-> "U0FSQUI="]

\* A body without the given fields, and a body with them blank.
Without(body, fields) == [k \in DOMAIN body \ fields |-> body[k]]
Blank(body, fields) == [k \in DOMAIN body |-> IF k \in fields THEN "  " ELSE body[k]]

\* The sets of required fields the bodies of the model leave out.
VisitorLeftOut == SUBSET {"serialNumber", "company", "purpose"} \ {{}}
KeyLeftOut == SUBSET {"serialNumber", "keyTagName", "securityRemarks"} \ {{}}

ValidVisitorBodies == {VisitorAli, VisitorSara}

InvalidVisitorBodies ==
    {Without(VisitorAli, f) : f \in VisitorLeftOut}
    \cup {Blank(VisitorSara, f) : f \in VisitorLeftOut}
    \cup {Blank(Without(VisitorAli, {"company"}), {"purpose"})}
    \cup {[VisitorAli EXCEPT !.idNumber = "123-4567-8901234-5"]}
    \cup {Without(VisitorSara, {"backPhoto"})}

ValidKeyBodies == {KeyAli, KeySara}

InvalidKeyBodies ==
    {Without(KeyAli, f) : f \in KeyLeftOut}
    \cup {Blank(KeySara, f) : f \in KeyLeftOut}
    \cup {[KeyAli EXCEPT !.idNumber = "784-12345-123456-1"]}
    \cup {[KeySara EXCEPT !.frontPhoto = ""]}

\* The bodies of the requests of Spec: the well-formed ones and a rejected one.
VisitorBodies == ValidVisitorBodies \cup {Without(VisitorAli, {"company"})}
KeyBodies == ValidKeyBodies \cup {Blank(KeySara, {"keyTagName"})}

\* The serial numbers requests name: every one a record can carry, and one
\* that is not zero-padded.
VisitorSerials == {Serial(i) : i \in 1..MaxVisitors} \cup {"1"}
KeySerials == {Serial(i) : i \in 1..MaxKeys} \cup {"1"}

\* req.body.timeOut / req.body.timeReturned
TimeValues == {"17:30", Undefined}

----------------------------------------------------------------------------
(* Steps of the handlers                                                   *)

\* The stored record as it would be were the serial number of the body kept.
visitorToStoreKeepsSerial(visitor, nextSerialNumber) ==
    LET v2 == Put(visitor, "date", Today)
        v3 == Put(v2, "frontPhoto", "/photos/" \o frontName("", v2.serialNumber))
    IN  Put(v3, "backPhoto", "/photos/" \o backName("", v2.serialNumber))

\* The record a create stores: serial number, date and photo references
\* are the server's.
visitorToStore(visitor, nextSerialNumber) ==
    LET v1 == Put(visitor, "serialNumber", nextSerialNumber)
        v2 == Put(v1, "date", Today)
        v3 == Put(v2, "frontPhoto", "/photos/" \o frontName(VisitorPrefix, v2.serialNumber))
    IN  Put(v3, "backPhoto", "/photos/" \o backName(VisitorPrefix, v2.serialNumber))

keyToStore(key, nextSerialNumber) ==
    LET k1 == Put(key, "serialNumber", nextSerialNumber)
        k2 == IF Falsy(Get(k1, "date")) THEN Put(k1, "date", Today) ELSE k1
        k3 == Put(k2, "frontPhoto", "/photos/" \o frontName(KeyPrefix, k2.serialNumber))
    IN  Put(k3, "backPhoto", "/photos/" \o backName(KeyPrefix, k2.serialNumber))

\* The two fs.writeFile calls of a create.  The call that fails writes
\* nothing and throws, so that the calls after it are not reached; nothing
\* deletes a file an earlier call has written.
savePhotos(dir, prefix, record, serialNumber, photoFault) ==
    LET frontPhotoData == StripDataUri(record.frontPhoto)
        backPhotoData  == StripDataUri(record.backPhoto)
        d1 == writeFile(dir, frontName(prefix, serialNumber), frontPhotoData)
    IN  IF photoFault = "front" THEN dir
        ELSE IF photoFault = "back" THEN d1
        ELSE writeFile(d1, backName(prefix, serialNumber), backPhotoData)

\* The assignment as it would be were the time also written to timeIn.
recordTimeOutAndTimeIn(visitor, timeOut) ==
    Put(Put(visitor, "timeOut", timeOut), "timeIn", timeOut)

\* visitor.timeOut = timeOut
recordTimeOut(visitor, timeOut) == Put(visitor, "timeOut", timeOut)

\* key.timeReturned = timeReturned
recordTimeReturned(key, timeReturned) == Put(key, "timeReturned", timeReturned)

\* The try block of the plain delete: unlink rejects when the file is
\* missing, and the second unlink is then not reached.
unlinkPhotos(dir, prefix, serialNumber) ==
    IF frontName(prefix, serialNumber) \notin DOMAIN dir THEN dir
    ELSE LET d1 == unlink(dir, frontName(prefix, serialNumber))
         IN  IF backName(prefix, serialNumber) \notin DOMAIN d1 THEN d1
             ELSE unlink(d1, backName(prefix, serialNumber))

\* The try block of delete-with-adjust that deletes the removed record's
\* photos: fs.existsSync throws before anything is deleted.
unlinkPhotosIfExist(dir, prefix, serialNumber) ==
    IF ~fsHasExistsSync THEN dir
    ELSE LET d1 == IF frontName(prefix, serialNumber) \in DOMAIN dir
                   THEN unlink(dir, frontName(prefix, serialNumber)) ELSE dir
         IN  IF backName(prefix, serialNumber) \in DOMAIN d1
             THEN unlink(d1, backName(prefix, serialNumber)) ELSE d1

\* The try block of the renumbering loop that renames one record's photos.
renamePhotosIfExist(dir, prefix, oldSerial, newSerial) ==
    IF ~fsHasExistsSync THEN dir
    ELSE LET d1 == IF frontName(prefix, oldSerial) \in DOMAIN dir
                   THEN rename(dir, frontName(prefix, oldSerial),
                               frontName(prefix, newSerial))
                   ELSE dir
         IN  IF backName(prefix, oldSerial) \in DOMAIN d1
             THEN rename(d1, backName(prefix, oldSerial), backName(prefix, newSerial))
             ELSE d1

\* Whether a photo try block of delete-with-adjust throws: it does at its
\* first statement when fs.existsSync is not a function.
photoTryThrows == ~fsHasExistsSync

\* The catch block as it would be were the error thrown on to the handler.
photoErrorRethrown(thrown) == thrown

\* The catch blocks of the photo try blocks of delete-with-adjust: the error
\* is logged and the handler goes on.  TRUE when the handler is left.
photoErrorAborts(thrown) == FALSE

\* The renumbering as it would be were the 0-based index not raised by one.
renumberFromZero(record, prefix, i) ==
    LET newSerial == padStart(toString(i - 1), 4, "0")
        r1 == Put(record, "serialNumber", newSerial)
        r2 == Put(r1, "frontPhoto", "/photos/" \o frontName(prefix, newSerial))
    IN  Put(r2, "backPhoto", "/photos/" \o backName(prefix, newSerial))

\* One record of the renumbering loop, at (1-based) position i.
renumber(record, prefix, i) ==
    LET newSerial == Serial(i)
        r1 == Put(record, "serialNumber", newSerial)
        r2 == Put(r1, "frontPhoto", "/photos/" \o frontName(prefix, newSerial))
    IN  Put(r2, "backPhoto", "/photos/" \o backName(prefix, newSerial))

\* The renumbering loop from position i on: the list and the photo
\* directory it leaves.
RECURSIVE adjustSerialNumbers(_, _, _, _)
adjustSerialNumbers(list, dir, prefix, i) ==
    IF i > Len(list) THEN [list |-> list, dir |-> dir]
    ELSE LET oldSerial == list[i].serialNumber
         IN  adjustSerialNumbers(
                 [list EXCEPT ![i] = renumber(list[i], prefix, i)],
                 renamePhotosIfExist(dir, prefix, oldSerial, Serial(i)),
                 prefix, i + 1)

----------------------------------------------------------------------------
(* The request handlers                                                    *)
(* readFault: the fs.readFile of the collection file fails in this request *)
(* photoFault: the fs.writeFile of a photo that fails in this request      *)
(* writeFault: the fs.writeFile of the collection file fails; the file is  *)
(* then left as it was.                                                    *)

\* The context of a slot no request has used.
Idle ==
    [op |-> "", req |-> <<>>, loaded |-> <<>>, record |-> <<>>,
     pc |-> "idle", res |-> Response(0, <<>>)]

\* The state after initializeDataDirectories on an empty data directory.
\* The handlers of one collection read and write neither the file nor the
\* photos of the other, so a run is explored with the requests of one desk.
Init ==
    /\ visitorsFile = <<>>
    /\ keysFile = <<>>
    /\ photos = <<>>
    /\ last = Response(0, <<>>)
    /\ desk \in {"visitors", "keys"}
    /\ exists = {VISITORS_FILE, KEYS_FILE}
    /\ server = "listening"
    /\ inflight = [k \in 1..MaxInFlight |-> Idle]

\* app.post('/api/visitors')
PostVisitors(body, readFault, photoFault, writeFault) ==
    LET invalid == validateVisitorData(body)
    IN  IF invalid # ""
        THEN /\ last' = Response(400, [success |-> FALSE, error |-> invalid])
             /\ UNCHANGED <<visitorsFile, keysFile, photos>>
        ELSE LET visitors == loadVisitors(readFault)
                 nextSerialNumber == Serial(Len(visitors) + 1)
                 visitor == visitorToStore(body, nextSerialNumber)
             IN  /\ Len(visitors) < MaxVisitors
                 /\ photos' = savePhotos(photos, VisitorPrefix, body,
                                         nextSerialNumber, photoFault)
                 /\ IF photoFault # "none"
                    THEN /\ last' = Response(400, [success |-> FALSE, error |-> PhotoWriteError])
                         /\ UNCHANGED visitorsFile
                    ELSE IF writeFault
                    THEN /\ last' = Response(400, [success |-> FALSE, error |-> WriteError])
                         /\ UNCHANGED visitorsFile
                    ELSE /\ visitorsFile' = JSONArray(Append(visitors, visitor))
                         /\ last' = Response(201,
                                [success |-> TRUE,
                                 message |-> "Visitor created successfully",
                                 data |-> JSONObject(visitor)])
                 /\ UNCHANGED keysFile

\* app.post('/api/visitors/:serialNumber/timeout')
PostVisitorTimeout(serialNumber, timeOut, readFault, writeFault) ==
    LET visitors == loadVisitors(readFault)
        index == findIndex(visitors, serialNumber)
    IN  IF index = 0
        THEN /\ last' = Response(404, [error |-> "Visitor not found"])
             /\ UNCHANGED <<visitorsFile, keysFile, photos>>
        ELSE LET visitor == recordTimeOut(visitors[index], timeOut)
             IN  /\ IF writeFault
                    THEN /\ last' = Response(500, [error |-> "Failed to record timeout"])
                         /\ UNCHANGED visitorsFile
                    ELSE /\ visitorsFile' = JSONArray([visitors EXCEPT ![index] = visitor])
                         /\ last' = Response(200, JSONObject(visitor))
                 /\ UNCHANGED <<keysFile, photos>>

\* app.delete('/api/visitors/:serialNumber')
DeleteVisitor(serialNumber, readFault, writeFault) ==
    LET visitors == loadVisitors(readFault)
        visitorIndex == findIndex(visitors, serialNumber)
    IN  IF visitorIndex = 0
        THEN /\ last' = Response(404, [error |-> "Visitor not found"])
             /\ UNCHANGED <<visitorsFile, keysFile, photos>>
        ELSE /\ photos' = unlinkPhotos(photos, VisitorPrefix, serialNumber)
             /\ IF writeFault
                THEN /\ last' = Response(500, [error |-> "Failed to delete visitor"])
                     /\ UNCHANGED visitorsFile
                ELSE /\ visitorsFile' = JSONArray(splice(visitors, visitorIndex))
                     /\ last' = Response(200, [message |-> "Visitor deleted successfully"])
             /\ UNCHANGED keysFile

\* app.delete('/api/visitors/:serialNumber/adjust')
DeleteVisitorAdjust(serialNumber, readFault, writeFault) ==
    LET visitors == loadVisitors(readFault)
        visitorIndex == findIndex(visitors, serialNumber)
    IN  IF visitorIndex = 0
        THEN /\ last' = Response(404, [error |-> "Visitor not found"])
             /\ UNCHANGED <<visitorsFile, keysFile, photos>>
        ELSE LET removed == splice(visitors, visitorIndex)
                 deleted == unlinkPhotosIfExist(photos, VisitorPrefix, serialNumber)
                 adjusted == adjustSerialNumbers(removed, deleted, VisitorPrefix, 1)
             IN  /\ photos' = adjusted.dir
                 /\ IF photoErrorAborts(photoTryThrows) \/ writeFault
                    THEN /\ last' = Response(500,
                                [error |-> "Failed to delete visitor and adjust serial numbers",
                                 details |-> WriteError])
                         /\ UNCHANGED visitorsFile
                    ELSE /\ visitorsFile' = JSONArray(adjusted.list)
                         /\ last' = Response(200,
                                [message |-> "Visitor deleted and serial numbers adjusted",
                                 remainingCount |-> Len(adjusted.list)])
                 /\ UNCHANGED keysFile

\* app.post('/api/keys')
PostKeys(body, readFault, photoFault, writeFault) ==
    LET invalid == validateKeyData(body)
    IN  IF invalid # ""
        THEN /\ last' = Response(400, [success |-> FALSE, error |-> invalid])
             /\ UNCHANGED <<visitorsFile, keysFile, photos>>
        ELSE LET keys == loadKeys(readFault)
                 nextSerialNumber == Serial(Len(keys) + 1)
                 key == keyToStore(body, nextSerialNumber)
             IN  /\ Len(keys) < MaxKeys
                 /\ photos' = savePhotos(photos, KeyPrefix, body,
                                         nextSerialNumber, photoFault)
                 /\ IF photoFault # "none"
                    THEN /\ last' = Response(400, [success |-> FALSE, error |-> PhotoWriteError])
                         /\ UNCHANGED keysFile
                    ELSE IF writeFault
                    THEN /\ last' = Response(400, [success |-> FALSE, error |-> WriteError])
                         /\ UNCHANGED keysFile
                    ELSE /\ keysFile' = JSONArray(Append(keys, key))
                         /\ last' = Response(201,
                                [success |-> TRUE,
                                 message |-> "Key entry created successfully",
                                 data |-> JSONObject(key)])
                 /\ UNCHANGED visitorsFile

\* app.delete('/api/keys/:serialNumber')
DeleteKey(serialNumber, readFault, writeFault) ==
    LET keys == loadKeys(readFault)
        keyIndex == findIndex(keys, serialNumber)
    IN  IF keyIndex = 0
        THEN /\ last' = Response(404, [error |-> "Key not found"])
             /\ UNCHANGED <<visitorsFile, keysFile, photos>>
        ELSE LET removed == splice(keys, keyIndex)
                 deleted == unlinkPhotosIfExist(photos, KeyPrefix, serialNumber)
                 adjusted == adjustSerialNumbers(removed, deleted, KeyPrefix, 1)
             IN  /\ photos' = adjusted.dir
                 /\ IF photoErrorAborts(photoTryThrows) \/ writeFault
                    THEN /\ last' = Response(500, [error |-> "Failed to delete key"])
                         /\ UNCHANGED keysFile
                    ELSE /\ keysFile' = JSONArray(adjusted.list)
                         /\ last' = Response(200,
                                [message |-> "Key record deleted and serial numbers adjusted",
                                 remainingCount |-> Len(adjusted.list)])
                 /\ UNCHANGED visitorsFile

\* app.post('/api/keys/:serialNumber/return')
PostKeyReturn(serialNumber, timeReturned, readFault, writeFault) ==
    LET keys == loadKeys(readFault)
        index == findIndex(keys, serialNumber)
    IN  IF index = 0
        THEN /\ last' = Response(404, [error |-> "Key not found"])
             /\ UNCHANGED <<visitorsFile, keysFile, photos>>
        ELSE LET key == recordTimeReturned(keys[index], timeReturned)
             IN  /\ IF writeFault
                    THEN /\ last' = Response(500, [error |-> "Failed to record key return"])
                         /\ UNCHANGED keysFile
                    ELSE /\ keysFile' = JSONArray([keys EXCEPT ![index] = key])
                         /\ last' = Response(200, JSONObject(key))
                 /\ UNCHANGED <<visitorsFile, photos>>

\* A request at the desk d of the run, handled from its arrival to its
\* answer with no other request in between.
AtDesk(d) ==
    /\ server = "listening"
    /\ desk = d
    /\ UNCHANGED <<desk, exists, server, inflight>>

\* Any request with a well-formed or a rejected body, with or without a
\* fault of the collection file.
Next ==
    \/ \E b \in VisitorBodies, rf, wf \in BOOLEAN, pf \in PhotoFaults :
            AtDesk("visitors") /\ PostVisitors(b, rf, pf, wf)
    \/ \E s \in VisitorSerials, t \in TimeValues, rf, wf \in BOOLEAN :
            AtDesk("visitors") /\ PostVisitorTimeout(s, t, rf, wf)
    \/ \E s \in VisitorSerials, rf, wf \in BOOLEAN :
            AtDesk("visitors") /\ DeleteVisitor(s, rf, wf)
    \/ \E s \in VisitorSerials, rf, wf \in BOOLEAN :
            AtDesk("visitors") /\ DeleteVisitorAdjust(s, rf, wf)
    \/ \E b \in KeyBodies, rf, wf \in BOOLEAN, pf \in PhotoFaults :
            AtDesk("keys") /\ PostKeys(b, rf, pf, wf)
    \/ \E s \in KeySerials, rf, wf \in BOOLEAN :
            AtDesk("keys") /\ DeleteKey(s, rf, wf)
    \/ \E s \in KeySerials, t \in TimeValues, rf, wf \in BOOLEAN :
            AtDesk("keys") /\ PostKeyReturn(s, t, rf, wf)

Spec == Init /\ [][Next]_vars

\* Any request, the file system working.
NextNoFault ==
    \/ \E b \in VisitorBodies :
            AtDesk("visitors") /\ PostVisitors(b, FALSE, "none", FALSE)
    \/ \E s \in VisitorSerials, t \in TimeValues :
            AtDesk("visitors") /\ PostVisitorTimeout(s, t, FALSE, FALSE)
    \/ \E s \in VisitorSerials :
            AtDesk("visitors") /\ DeleteVisitor(s, FALSE, FALSE)
    \/ \E s \in VisitorSerials :
            AtDesk("visitors") /\ DeleteVisitorAdjust(s, FALSE, FALSE)
    \/ \E b \in KeyBodies :
            AtDesk("keys") /\ PostKeys(b, FALSE, "none", FALSE)
    \/ \E s \in KeySerials :
            AtDesk("keys") /\ DeleteKey(s, FALSE, FALSE)
    \/ \E s \in KeySerials, t \in TimeValues :
            AtDesk("keys") /\ PostKeyReturn(s, t, FALSE, FALSE)

SpecNoFault == Init /\ [][NextNoFault]_vars

\* Creates with every body of the model, and the deletes that make room
\* for them, the file system working.
NextCreate ==
    \/ \E b \in ValidVisitorBodies \cup InvalidVisitorBodies :
            AtDesk("visitors") /\ PostVisitors(b, FALSE, "none", FALSE)
    \/ \E s \in VisitorSerials :
            AtDesk("visitors") /\ DeleteVisitorAdjust(s, FALSE, FALSE)
    \/ \E b \in ValidKeyBodies \cup InvalidKeyBodies :
            AtDesk("keys") /\ PostKeys(b, FALSE, "none", FALSE)
    \/ \E s \in KeySerials :
            AtDesk("keys") /\ DeleteKey(s, FALSE, FALSE)

SpecCreate == Init /\ [][NextCreate]_vars

----------------------------------------------------------------------------
(* Collections left by earlier requests                                    *)

\* The creates whose records an earlier run of the server has left in a
\* collection file, in their order.
LeftVisitors == {<<>>, <<VisitorAli>>, <<VisitorSara, VisitorAli>>}
LeftKeys == {<<>>, <<KeySara>>, <<KeyAli, KeySara>>}

\* The collection the creates of the bodies have stored.
storedVisitors(bodies) ==
    JSONArray([i \in 1..Len(bodies) |-> visitorToStore(bodies[i], Serial(i))])
storedKeys(bodies) ==
    JSONArray([i \in 1..Len(bodies) |-> keyToStore(bodies[i], Serial(i))])

\* The photo directory after the creates of the first n bodies.
RECURSIVE storedPhotos(_, _, _, _)
storedPhotos(dir, prefix, bodies, n) ==
    IF n = 0 THEN dir
    ELSE savePhotos(storedPhotos(dir, prefix, bodies, n - 1), prefix,
                    bodies[n], Serial(n), "none")

----------------------------------------------------------------------------
(* Requests in flight                                                      *)
(* A handler is an async function: it runs alone from one await to the     *)
(* next, and the handlers of other requests run while it waits.  A step    *)
(* below is the part of a handler that ends when an awaited file operation *)
(* has taken effect.  The context of a request holds what the handler has  *)
(* in its local variables: the request and the collection it loaded.       *)

\* The collection file of desk d, its photo prefix and its bound.
File(d) == IF d = "visitors" THEN visitorsFile ELSE keysFile
Prefix(d) == IF d = "visitors" THEN VisitorPrefix ELSE KeyPrefix
MaxRecords(d) == IF d = "visitors" THEN MaxVisitors ELSE MaxKeys

\* saveVisitors / saveKeys
save(d, list) ==
    IF d = "visitors"
    THEN visitorsFile' = JSONArray(list) /\ UNCHANGED keysFile
    ELSE keysFile' = JSONArray(list) /\ UNCHANGED visitorsFile

\* The list as it would be were the collection file read again before the
\* record is pushed.
listReloaded(loaded, persisted) == persisted

\* The list a create pushes its record to and saves: the array its load
\* returned, whatever the collection file holds by now.
listToSave(loaded, persisted) == loaded

\* The slot takes a request.
Free(k) == server = "listening" /\ inflight[k].pc = "idle"

\* The request of slot k is the given operation at the given await.
At(k, op, pc) == inflight[k].op = op /\ inflight[k].pc = pc

\* The context of a request that has loaded the collection: record is the
\* handler's const visitor / const key, the body of a create, else the
\* first record with the serial number of the request (<<>> when there is
\* none).
Loaded(op, req, pc) ==
    [op |-> op, req |-> req, loaded |-> File(desk),
     record |-> IF op = "create" THEN req.body
                ELSE IF findIndex(File(desk), req.serialNumber) = 0 THEN <<>>
                ELSE File(desk)[findIndex(File(desk), req.serialNumber)],
     pc |-> pc, res |-> Response(0, <<>>)]

\* The request of slot k moves on to its next await.
Goto(k, pc) == inflight' = [inflight EXCEPT ![k].pc = pc]

\* res.json: the request of slot k is answered, and the array its handler
\* loaded is dropped.
Answer(k, ctx, res) ==
    /\ inflight' = [inflight EXCEPT ![k] =
            [ctx EXCEPT !.pc = "done", !.res = res, !.loaded = <<>>]]
    /\ last' = res

\* The first record of the loaded collection with the serial number of
\* the request.
Found(k) == findIndex(inflight[k].loaded, inflight[k].req.serialNumber)

NotFound(d) ==
    Response(404, [error |-> IF d = "visitors" THEN "Visitor not found"
                                                ELSE "Key not found"])

\* A create, from its arrival to the await of the first photo write.
CreateLoad(k, body) ==
    /\ Free(k)
    /\ (IF desk = "visitors" THEN validateVisitorData(body)
                             ELSE validateKeyData(body)) = ""
    /\ Len(File(desk)) < MaxRecords(desk)
    /\ inflight' = [inflight EXCEPT ![k] = Loaded("create", [body |-> body], "photos")]
    /\ UNCHANGED <<visitorsFile, keysFile, photos, last, desk, exists, server>>

\* The two photo writes of a create.
CreatePhotos(k) ==
    /\ At(k, "create", "photos")
    /\ photos' = savePhotos(photos, Prefix(desk), inflight[k].req.body,
                            Serial(Len(inflight[k].loaded) + 1), "none")
    /\ Goto(k, "save")
    /\ UNCHANGED <<visitorsFile, keysFile, last, desk, exists, server>>

\* The push, the save and the answer of a create.
CreateSave(k) ==
    LET ctx == inflight[k]
        nextSerialNumber == Serial(Len(ctx.loaded) + 1)
        record == IF desk = "visitors"
                  THEN visitorToStore(ctx.req.body, nextSerialNumber)
                  ELSE keyToStore(ctx.req.body, nextSerialNumber)
    IN  /\ At(k, "create", "save")
        /\ save(desk, Append(listToSave(ctx.loaded, File(desk)), record))
        /\ Answer(k, ctx, Response(201,
                [success |-> TRUE,
                 message |-> IF desk = "visitors" THEN "Visitor created successfully"
                                                  ELSE "Key entry created successfully",
                 data |-> JSONObject(record)]))
        /\ UNCHANGED <<photos, desk, exists, server>>

\* A timeout or a return, from its arrival to the await of the save.
TimeoutLoad(k, serialNumber, time) ==
    LET ctx == Loaded("timeout", [serialNumber |-> serialNumber, time |-> time], "save")
    IN  /\ Free(k)
        /\ IF findIndex(ctx.loaded, serialNumber) = 0
           THEN Answer(k, ctx, NotFound(desk))
           ELSE inflight' = [inflight EXCEPT ![k] = ctx] /\ UNCHANGED last
        /\ UNCHANGED <<visitorsFile, keysFile, photos, desk, exists, server>>

\* The save and the answer of a timeout or a return.
TimeoutSave(k) ==
    LET ctx == inflight[k]
        record == IF desk = "visitors"
                  THEN recordTimeOut(ctx.loaded[Found(k)], ctx.req.time)
                  ELSE recordTimeReturned(ctx.loaded[Found(k)], ctx.req.time)
    IN  /\ At(k, "timeout", "save")
        /\ save(desk, [ctx.loaded EXCEPT ![Found(k)] = record])
        /\ Answer(k, ctx, Response(200, JSONObject(record)))
        /\ UNCHANGED <<photos, desk, exists, server>>

\* A plain visitor delete, from its arrival to the await of the first unlink.
DeleteLoad(k, serialNumber) ==
    LET ctx == Loaded("delete", [serialNumber |-> serialNumber], "unlink")
    IN  /\ Free(k)
        /\ desk = "visitors"
        /\ IF findIndex(ctx.loaded, serialNumber) = 0
           THEN Answer(k, ctx, NotFound(desk))
           ELSE inflight' = [inflight EXCEPT ![k] = ctx] /\ UNCHANGED last
        /\ UNCHANGED <<visitorsFile, keysFile, photos, desk, exists, server>>

\* The two unlinks of a plain visitor delete.
DeleteUnlink(k) ==
    /\ At(k, "delete", "unlink")
    /\ photos' = unlinkPhotos(photos, VisitorPrefix, inflight[k].req.serialNumber)
    /\ Goto(k, "save")
    /\ UNCHANGED <<visitorsFile, keysFile, last, desk, exists, server>>

\* The splice, the save and the answer of a plain visitor delete.
DeleteSave(k) ==
    LET ctx == inflight[k]
    IN  /\ At(k, "delete", "save")
        /\ save(desk, splice(ctx.loaded, Found(k)))
        /\ Answer(k, ctx, Response(200, [message |-> "Visitor deleted successfully"]))
        /\ UNCHANGED <<photos, desk, exists, server>>

\* A delete-with-adjust, from its arrival to the await of the save.  The
\* photo try blocks throw before they await anything, so the splice and the
\* renumbering loop run in one go.
AdjustLoad(k, serialNumber) ==
    LET ctx == Loaded("adjust", [serialNumber |-> serialNumber], "save")
        index == findIndex(ctx.loaded, serialNumber)
        deleted == unlinkPhotosIfExist(photos, Prefix(desk), serialNumber)
        adjusted == adjustSerialNumbers(splice(ctx.loaded, index), deleted,
                                        Prefix(desk), 1)
    IN  /\ Free(k)
        /\ IF index = 0
           THEN Answer(k, ctx, NotFound(desk)) /\ UNCHANGED photos
           ELSE /\ inflight' = [inflight EXCEPT ![k] = ctx]
                /\ photos' = adjusted.dir
                /\ UNCHANGED last
        /\ UNCHANGED <<visitorsFile, keysFile, desk, exists, server>>

\* The save and the answer of a delete-with-adjust.
AdjustSave(k) ==
    LET ctx == inflight[k]
        adjusted == adjustSerialNumbers(splice(ctx.loaded, Found(k)), photos,
                                        Prefix(desk), 1)
    IN  /\ At(k, "adjust", "save")
        /\ save(desk, adjusted.list)
        /\ Answer(k, ctx, Response(200,
                [message |-> IF desk = "visitors"
                             THEN "Visitor deleted and serial numbers adjusted"
                             ELSE "Key record deleted and serial numbers adjusted",
                 remainingCount |-> Len(adjusted.list)]))
        /\ UNCHANGED <<photos, desk, exists, server>>

\* The bodies, serial numbers and times of the requests in flight.
BodiesAt(d) == IF d = "visitors" THEN ValidVisitorBodies ELSE ValidKeyBodies
SerialsAt(d) == {Serial(i) : i \in 1..MaxRecords(d)}
TimesInFlight == {"17:30"}

\* The steps of up to MaxInFlight requests, in any order.
NextInFlight ==
    \/ \E k \in 1..MaxInFlight, b \in BodiesAt(desk) : CreateLoad(k, b)
    \/ \E k \in 1..MaxInFlight : CreatePhotos(k)
    \/ \E k \in 1..MaxInFlight : CreateSave(k)
    \/ \E k \in 1..MaxInFlight, s \in SerialsAt(desk), t \in TimesInFlight :
            TimeoutLoad(k, s, t)
    \/ \E k \in 1..MaxInFlight : TimeoutSave(k)
    \/ \E k \in 1..MaxInFlight, s \in SerialsAt(desk) : DeleteLoad(k, s)
    \/ \E k \in 1..MaxInFlight : DeleteUnlink(k)
    \/ \E k \in 1..MaxInFlight : DeleteSave(k)
    \/ \E k \in 1..MaxInFlight, s \in SerialsAt(desk) : AdjustLoad(k, s)
    \/ \E k \in 1..MaxInFlight : AdjustSave(k)

\* The server is listening, and the collection of the desk holds the
\* records earlier requests have left.
InitInFlight ==
    \E vb \in LeftVisitors, kb \in LeftKeys :
        /\ desk \in {"visitors", "keys"}
        /\ desk = "visitors" => kb = <<>>
        /\ desk = "keys" => vb = <<>>
        /\ visitorsFile = storedVisitors(vb)
        /\ keysFile = storedKeys(kb)
        /\ photos = storedPhotos(storedPhotos(<<>>, VisitorPrefix, vb, Len(vb)),
                                 KeyPrefix, kb, Len(kb))
        /\ last = Response(0, <<>>)
        /\ exists = {VISITORS_FILE, KEYS_FILE}
        /\ server = "listening"
        /\ inflight = [k \in 1..MaxInFlight |-> Idle]

SpecInFlight == InitInFlight /\ [][NextInFlight]_vars

----------------------------------------------------------------------------
(* Start-up                                                                *)

\* The server process is started on a data directory an earlier run has
\* left: either collection file may be missing; a file that exists holds
\* the records of earlier creates.
InitStartUp ==
    \E ex \in SUBSET {VISITORS_FILE, KEYS_FILE}, vb \in LeftVisitors, kb \in LeftKeys :
        /\ VISITORS_FILE \notin ex => vb = <<>>
        /\ KEYS_FILE \notin ex => kb = <<>>
        /\ exists = ex
        /\ visitorsFile = storedVisitors(vb)
        /\ keysFile = storedKeys(kb)
        /\ photos = storedPhotos(storedPhotos(<<>>, VisitorPrefix, vb, Len(vb)),
                                 KeyPrefix, kb, Len(kb))
        /\ last = Response(0, <<>>)
        /\ desk \in {"visitors", "keys"}
        /\ server = "starting"
        /\ inflight = [k \in 1..MaxInFlight |-> Idle]

\* initializeDataDirectories, and the app.listen that follows it: when
\* fs.access of either collection file rejects, both files are written
\* with '[]'.
initializeDataDirectories ==
    /\ server = "starting"
    /\ IF VISITORS_FILE \in exists /\ KEYS_FILE \in exists
       THEN UNCHANGED <<visitorsFile, keysFile, exists>>
       ELSE /\ visitorsFile' = <<>>
            /\ keysFile' = <<>>
            /\ exists' = {VISITORS_FILE, KEYS_FILE}
    /\ server' = "listening"
    /\ UNCHANGED <<photos, last, desk, inflight>>

\* The start-up, and the creates, timeouts and returns served after it.
NextStartUp ==
    \/ initializeDataDirectories
    \/ \E b \in ValidVisitorBodies :
            AtDesk("visitors") /\ PostVisitors(b, FALSE, "none", FALSE)
    \/ \E s \in VisitorSerials, t \in TimeValues :
            AtDesk("visitors") /\ PostVisitorTimeout(s, t, FALSE, FALSE)
    \/ \E b \in ValidKeyBodies :
            AtDesk("keys") /\ PostKeys(b, FALSE, "none", FALSE)
    \/ \E s \in KeySerials, t \in TimeValues :
            AtDesk("keys") /\ PostKeyReturn(s, t, FALSE, FALSE)

SpecStartUp == InitStartUp /\ [][NextStartUp]_vars

----------------------------------------------------------------------------
(* Properties                                                              *)

\* The record at every position i carries the serial number zero-pad(i, 4).
Contiguous(list) == \A i \in 1..Len(list) : list[i].serialNumber = Serial(i)

\* Some record of the list carries the serial number.
Held(list, serialNumber) ==
    \E i \in 1..Len(list) : list[i].serialNumber = serialNumber

\* k is the position of the first record of the list with the serial number.
FirstMatch(list, serialNumber, k) ==
    /\ k \in 1..Len(list)
    /\ list[k].serialNumber = serialNumber
    /\ \A j \in 1..(k - 1) : list[j].serialNumber # serialNumber

\* Two records agree on every field outside the given ones.
SameOutside(r1, r2, fields) ==
    \A f \in (DOMAIN r1 \cup DOMAIN r2) \ fields : Get(r1, f) = Get(r2, f)

\* The photo reference of a file.
Ref(fileName) == "/photos/" \o fileName

\* C1: each persisted collection of N records has the serial numbers
\* 0001..N, the record at position i carrying zero-pad(i, 4).
C1_SerialsContiguous == Contiguous(visitorsFile) /\ Contiguous(keysFile)

\* new is old without the first record matching the serial number, in the
\* same order, renumbered by position.
RemovedAndRenumbered(old, new, serialNumber) ==
    \E k \in 1..Len(old) :
        /\ FirstMatch(old, serialNumber, k)
        /\ Len(new) = Len(old) - 1
        /\ \A i \in 1..Len(new) :
            /\ new[i].serialNumber = Serial(i)
            /\ SameOutside(new[i], old[IF i < k THEN i ELSE i + 1],
                           {"serialNumber", "frontPhoto", "backPhoto"})

\* C2: a successful delete-with-adjust of serial s on n records leaves the
\* n-1 records other than the first one matching s, in their order,
\* renumbered by position, and returns remainingCount = n-1.
C2_AdjustRemovesAndRenumbers ==
    [][last'.status = 200 =>
        /\ \A s \in VisitorSerials :
            DeleteVisitorAdjust(s, FALSE, FALSE) =>
                /\ RemovedAndRenumbered(visitorsFile, visitorsFile', s)
                /\ last'.body.remainingCount = Len(visitorsFile) - 1
        /\ \A s \in KeySerials :
            DeleteKey(s, FALSE, FALSE) =>
                /\ RemovedAndRenumbered(keysFile, keysFile', s)
                /\ last'.body.remainingCount = Len(keysFile) - 1
    ]_vars

\* A key delete has answered with remainingCount 2: two records of
\* different holders remain, renumbered 0001 and 0002, the second one
\* returned.
C2_Witness ==
    /\ last.status = 200
    /\ "remainingCount" \in DOMAIN last.body
    /\ last.body.remainingCount = 2
    /\ Len(keysFile) = 2
    /\ keysFile[1].name # keysFile[2].name
    /\ keysFile[2].serialNumber = "0002"
    /\ "timeReturned" \in DOMAIN keysFile[2]

\* C3: a create that succeeds on a collection loaded with priorCount
\* records stores and returns a record with the serial number
\* zero-pad(priorCount + 1, 4), whatever serial number the body carried.
C3_CreateAssignsNextSerial ==
    [][last'.status = 201 =>
        /\ \A b \in VisitorBodies :
            PostVisitors(b, FALSE, "none", FALSE) =>
                LET priorCount == Len(visitorsFile)
                IN  /\ Len(visitorsFile') = priorCount + 1
                    /\ visitorsFile'[priorCount + 1].serialNumber = Serial(priorCount + 1)
                    /\ last'.body.data = visitorsFile'[priorCount + 1]
        /\ \A b \in KeyBodies :
            PostKeys(b, FALSE, "none", FALSE) =>
                LET priorCount == Len(keysFile)
                IN  /\ Len(keysFile') = priorCount + 1
                    /\ keysFile'[priorCount + 1].serialNumber = Serial(priorCount + 1)
                    /\ last'.body.data = keysFile'[priorCount + 1]
    ]_vars

\* A create of the body that carried serial number 0009 has answered with
\* the record it stored third.
C3_Witness ==
    /\ last.status = 201
    /\ Len(keysFile) = 3
    /\ last.body.data = keysFile[3]
    /\ last.body.data.name = KeyAli.name
    /\ KeyAli.serialNumber = "0009"
    /\ last.body.data.serialNumber = "0003"

\* Every record of the list has photo references that embed its serial
\* number and name files of the photo directory.
PhotosInPlace(list, dir, prefix) ==
    \A i \in 1..Len(list) :
        /\ list[i].frontPhoto = Ref(frontName(prefix, list[i].serialNumber))
        /\ list[i].backPhoto = Ref(backName(prefix, list[i].serialNumber))
        /\ frontName(prefix, list[i].serialNumber) \in DOMAIN dir
        /\ backName(prefix, list[i].serialNumber) \in DOMAIN dir

\* C4, for a collection with contiguous serial numbers whose photos are in
\* place: after a delete-with-adjust without a fault, the photos of every
\* remaining record are stored under its new serial number, and no photo
\* file is left under a serial number no remaining record carries.
PhotosFollow(old, new, dir, newDir, prefix) ==
    /\ \A i \in 1..Len(new) :
        \E j \in 1..Len(old) :
            /\ SameOutside(new[i], old[j], {"serialNumber", "frontPhoto", "backPhoto"})
            /\ frontName(prefix, new[i].serialNumber) \in DOMAIN newDir
            /\ newDir[frontName(prefix, new[i].serialNumber)]
                    = dir[frontName(prefix, old[j].serialNumber)]
            /\ backName(prefix, new[i].serialNumber) \in DOMAIN newDir
            /\ newDir[backName(prefix, new[i].serialNumber)]
                    = dir[backName(prefix, old[j].serialNumber)]
    /\ \A j \in 1..Len(old) :
        ~Held(new, old[j].serialNumber) =>
            /\ frontName(prefix, old[j].serialNumber) \notin DOMAIN newDir
            /\ backName(prefix, old[j].serialNumber) \notin DOMAIN newDir

C4_AdjustMovesPhotos ==
    [][last'.status = 200 =>
        /\ \A s \in VisitorSerials :
            ( /\ Contiguous(visitorsFile)
              /\ PhotosInPlace(visitorsFile, photos, VisitorPrefix)
              /\ DeleteVisitorAdjust(s, FALSE, FALSE) ) =>
                PhotosFollow(visitorsFile, visitorsFile', photos, photos', VisitorPrefix)
        /\ \A s \in KeySerials :
            ( /\ Contiguous(keysFile)
              /\ PhotosInPlace(keysFile, photos, KeyPrefix)
              /\ DeleteKey(s, FALSE, FALSE) ) =>
                PhotosFollow(keysFile, keysFile', photos, photos', KeyPrefix)
    ]_vars

\* C5: every record of a persisted collection has photo references that
\* embed its serial number and name files of the photo directory.
C5_PhotoReferencesExist ==
    /\ PhotosInPlace(visitorsFile, photos, VisitorPrefix)
    /\ PhotosInPlace(keysFile, photos, KeyPrefix)

\* C6: no two records of the visitor collection share a serial number.
C6_VisitorSerialsUnique ==
    \A i, j \in 1..Len(visitorsFile) :
        i # j => visitorsFile[i].serialNumber # visitorsFile[j].serialNumber


\* new is old but for the given field of the first record matching the
\* serial number, which holds the value.
OnlyFieldSet(old, new, serialNumber, field, value) ==
    \E k \in 1..Len(old) :
        /\ FirstMatch(old, serialNumber, k)
        /\ Len(new) = Len(old)
        /\ \A i \in 1..Len(old) : i # k => new[i] = old[i]
        /\ SameOutside(new[k], old[k], {field})
        /\ Get(new[k], field) = value

\* C7: a timeout (return) on a serial number a record carries sets only
\* timeOut (timeReturned) of the matching record to the value supplied:
\* its other fields, the other records, the length and order of the
\* collection and the photo files are unchanged.
C7_TimeoutSetsOnlyTime ==
    [][/\ \A s \in VisitorSerials :
            Held(visitorsFile, s) =>
                \A t \in TimeValues :
                    PostVisitorTimeout(s, t, FALSE, FALSE) =>
                        /\ last'.status = 200
                        /\ OnlyFieldSet(visitorsFile, visitorsFile', s, "timeOut", t)
                        /\ UNCHANGED <<keysFile, photos>>
       /\ \A s \in KeySerials :
            Held(keysFile, s) =>
                \A t \in TimeValues :
                    PostKeyReturn(s, t, FALSE, FALSE) =>
                        /\ last'.status = 200
                        /\ OnlyFieldSet(keysFile, keysFile', s, "timeReturned", t)
                        /\ UNCHANGED <<visitorsFile, photos>>
    ]_vars

\* A return has answered with the record it updated, the second of three,
\* and the other two carry no return time.
C7_Witness ==
    /\ last.status = 200
    /\ Len(keysFile) = 3
    /\ last.body = keysFile[2]
    /\ Get(keysFile[2], "timeReturned") = "17:30"
    /\ Get(keysFile[1], "timeReturned") = Undefined
    /\ Get(keysFile[3], "timeReturned") = Undefined

\* C8: a delete, delete-with-adjust, key delete, timeout or return that
\* names a serial number no record of the collection carries answers
\* not-found and leaves the collections and the photo files unchanged.
C8_UnknownSerialNotFound ==
    [][/\ \A s \in VisitorSerials :
            ~Held(visitorsFile, s) =>
                \A t \in TimeValues :
                    ( \/ DeleteVisitor(s, FALSE, FALSE)
                      \/ DeleteVisitorAdjust(s, FALSE, FALSE)
                      \/ PostVisitorTimeout(s, t, FALSE, FALSE) ) =>
                        /\ last'.status = 404
                        /\ UNCHANGED <<visitorsFile, keysFile, photos>>
       /\ \A s \in KeySerials :
            ~Held(keysFile, s) =>
                \A t \in TimeValues :
                    ( \/ DeleteKey(s, FALSE, FALSE)
                      \/ PostKeyReturn(s, t, FALSE, FALSE) ) =>
                        /\ last'.status = 404
                        /\ UNCHANGED <<visitorsFile, keysFile, photos>>
    ]_vars

\* A request has been answered not-found while the visitor collection held
\* two records, none of them with the serial number 0001.
C8_Witness ==
    /\ last.status = 404
    /\ Len(visitorsFile) = 2
    /\ ~Held(visitorsFile, "0001")

\* A field value that is empty or white space only.
IsBlank(value) == \A i \in 1..Len(value) : SubSeq(value, i, i) \in WhiteSpace

\* The required fields a body lacks or carries blank.
MissingOf(body, requiredFields) ==
    {requiredFields[i] : i \in {j \in 1..Len(requiredFields) :
        requiredFields[j] \notin DOMAIN body \/ IsBlank(body[requiredFields[j]])}}

\* The text holds the word.
Contains(text, word) ==
    \E i \in 1..(Len(text) - Len(word) + 1) :
        SubSeq(text, i, i + Len(word) - 1) = word

Aborted(file, readFault, writeFault) ==
    ((readFault /\ Len(file) > 0) \/ writeFault) =>
        /\ last'.status >= 400
        /\ file' = file

C10_FaultCommitsNothing ==
    [][\A rf, wf \in BOOLEAN :
        /\ \A b \in ValidVisitorBodies :
            PostVisitors(b, rf, "none", wf) => Aborted(visitorsFile, rf, wf)
        /\ \A s \in VisitorSerials, t \in TimeValues :
            ( \/ PostVisitorTimeout(s, t, rf, wf)
              \/ DeleteVisitor(s, rf, wf)
              \/ DeleteVisitorAdjust(s, rf, wf) ) => Aborted(visitorsFile, rf, wf)
        /\ \A b \in ValidKeyBodies :
            PostKeys(b, rf, "none", wf) => Aborted(keysFile, rf, wf)
        /\ \A s \in KeySerials, t \in TimeValues :
            (DeleteKey(s, rf, wf) \/ PostKeyReturn(s, t, rf, wf)) =>
                Aborted(keysFile, rf, wf)
    ]_vars

\* No photo file of the record with the serial number that was not in the
\* directory before is in it afterwards.
NoPhotoProduced(dir, newDir, prefix, serialNumber) ==
    \A f \in {frontName(prefix, serialNumber), backName(prefix, serialNumber)} :
        f \notin DOMAIN dir => f \notin DOMAIN newDir

\* C11: a create during which the write of the front or of the back photo
\* fails is reported as failed, appends no record to the collection, and
\* leaves in the photo directory no photo file it has produced.
C11_PhotoFaultRollsBack ==
    [][last'.status = 400 =>
        \A pf \in PhotoFaults \ {"none"} :
            /\ \A b \in ValidVisitorBodies :
                PostVisitors(b, FALSE, pf, FALSE) =>
                    /\ visitorsFile' = visitorsFile
                    /\ NoPhotoProduced(photos, photos', VisitorPrefix,
                                       Serial(Len(visitorsFile) + 1))
            /\ \A b \in ValidKeyBodies :
                PostKeys(b, FALSE, pf, FALSE) =>
                    /\ keysFile' = keysFile
                    /\ NoPhotoProduced(photos, photos', KeyPrefix,
                                       Serial(Len(keysFile) + 1))
    ]_vars

\* C12: a delete-with-adjust whose photo try blocks throw (the delete of
\* the removed record's photos, the rename of every remaining record's
\* photos) is not aborted: it answers success, and the collection it
\* persists is the old one without the removed record, every remaining
\* record renumbered by position.
C12_PhotoErrorsDoNotAbort ==
    [][/\ \A s \in VisitorSerials :
            ( /\ Held(visitorsFile, s)
              /\ photoTryThrows
              /\ DeleteVisitorAdjust(s, FALSE, FALSE) ) =>
                /\ last'.status = 200
                /\ RemovedAndRenumbered(visitorsFile, visitorsFile', s)
                /\ last'.body.remainingCount = Len(visitorsFile')
       /\ \A s \in KeySerials :
            ( /\ Held(keysFile, s)
              /\ photoTryThrows
              /\ DeleteKey(s, FALSE, FALSE) ) =>
                /\ last'.status = 200
                /\ RemovedAndRenumbered(keysFile, keysFile', s)
                /\ last'.body.remainingCount = Len(keysFile')
    ]_vars

\* A key delete has answered success with two records remaining, renumbered
\* 0001 and 0002, while no photo was deleted or renamed: the photos of the
\* record now numbered 0002 are still under 0003, and the files under 0002
\* are those of another record.
C12_Witness ==
    /\ last.status = 200
    /\ "remainingCount" \in DOMAIN last.body
    /\ Len(keysFile) = 2
    /\ Contiguous(keysFile)
    /\ keysFile[2].name = KeyAli.name
    /\ frontName(KeyPrefix, "0001") \in DOMAIN photos
    /\ frontName(KeyPrefix, "0003") \in DOMAIN photos
    /\ photos[frontName(KeyPrefix, "0003")] = StripDataUri(KeyAli.frontPhoto)
    /\ photos[frontName(KeyPrefix, "0002")] = StripDataUri(KeySara.frontPhoto)

\* C14: the start-up leaves unchanged a collection file that exists and
\* holds records, also when the other collection file is missing.
C14_StartUpKeepsRecords ==
    [][initializeDataDirectories =>
        /\ (VISITORS_FILE \in exists /\ Len(visitorsFile) > 0) =>
                visitorsFile' = visitorsFile
        /\ (KEYS_FILE \in exists /\ Len(keysFile) > 0) =>
                keysFile' = keysFile
    ]_vars

\* The request of the context is a create that has been answered 201.
Created(ctx) == ctx.op = "create" /\ ctx.pc = "done" /\ ctx.res.status = 201

\* C13: two creates on one collection can lose an update.  When a create
\* saves while the collection file holds what it loaded plus the record of
\* another create that has been answered with success - both loaded the
\* same collection, the other saved first - it is answered with success
\* and the same serial number, and the collection it persists holds its
\* own record in the place of the other's: one record for two successes.
C13_ConcurrentCreatesLoseUpdate ==
    [][\A j, k \in 1..MaxInFlight :
        ( /\ j # k
          /\ Created(inflight[j])
          /\ At(k, "create", "save")
          /\ File(desk) = Append(inflight[k].loaded, inflight[j].res.body.data)
          /\ CreateSave(k) ) =>
            /\ Created(inflight'[k])
            /\ inflight'[k].res.body.data.serialNumber
                    = inflight[j].res.body.data.serialNumber
            /\ Len(File(desk)') = Len(inflight[k].loaded) + 1
            /\ File(desk)' = Append(inflight[k].loaded, inflight'[k].res.body.data)
    ]_vars

\* Two visitor creates, of Ali and of Sara, have both been answered 201
\* with the serial number 0001, and the collection holds Sara's record only.
C13_Witness ==
    /\ Created(inflight[1])
    /\ Created(inflight[2])
    /\ inflight[1].res.body.data.name = VisitorAli.name
    /\ inflight[2].res.body.data.name = VisitorSara.name
    /\ inflight[1].res.body.data.serialNumber = "0001"
    /\ inflight[2].res.body.data.serialNumber = "0001"
    /\ Len(visitorsFile) = 1
    /\ visitorsFile[1] = inflight[2].res.body.data

\* The request of the context is a delete, plain or with adjust, that has
\* been answered with success.
Deleted(ctx) ==
    ctx.op \in {"delete", "adjust"} /\ ctx.pc = "done" /\ ctx.res.status = 200

\* The list holds the record, whatever its serial number, photo references
\* and time-out or return time.
Present(list, record) ==
    \E i \in 1..Len(list) :
        SameOutside(list[i], record,
            {"serialNumber", "frontPhoto", "backPhoto", "timeOut", "timeReturned"})

\* C15: a record whose delete has been answered with success, and which
\* the collection does not hold, is not in the collection after the save
\* of a timeout or return either, whenever that request loaded.
C15_DeleteIsDurable ==
    [][\A j, k \in 1..MaxInFlight :
        ( /\ Deleted(inflight[j])
          /\ ~Present(File(desk), inflight[j].record)
          /\ TimeoutSave(k) ) =>
            ~Present(File(desk)', inflight[j].record)
    ]_vars

====
